---------------------------- MODULE Spec2Model ----------------------------
(***************************************************************************)
(* A model of the ivar crate (src/src/lib.rs): a heap cell IVarCell with a *)
(* packed 32-bit `meta` word (bit 31 "ever filled", bit 30 "currently      *)
(* filled", the rest a strong reference count), the owning handle IVar,    *)
(* and the public handles IVarRd (cloneable reader) and IVarWr (single-use *)
(* writer).                                                                *)
(*                                                                         *)
(* A u32 is kept as two 16-bit limbs [hi, lo] so that the bit masks of the *)
(* source (0x80000000, 0x40000000, 0xC0000000, !0x30000000) and wrapping   *)
(* +1 / -1 are computed exactly as the code computes them.                 *)
(***************************************************************************)
EXTENDS Integers, Sequences, FiniteSets

(* ------------------------------ bounds -------------------------------- *)

\* Single clone() steps are taken while fewer than MaxRd read handles live.
MaxRd == 3
\* The payload values fill may be given: 1..MaxVal.
MaxVal == 2
\* Addresses the allocator may hand out: 1..MaxCells.
MaxCells == 2
\* A bulk clone (a loop that clones a read handle into a container) makes
\* BulkBase + BulkExtra clones in one step.
BulkExtra == 0
\* The event counters (released, payloadDrops, badPayloadOps, fills) and the
\* log of taken values stop growing at MaxCount.
MaxCount == 3
\* 2^28 - 1: with the two references new() makes, one bulk clone brings the
\* count to 2^28 + 1, just above the lowest bit strong_refs() clears.
BulkBase == 2^28 - 1

Val == 1..MaxVal
Addr == 1..MaxCells
NULL == 0

(* --------------------------- 32-bit words ----------------------------- *)

W == 2^16

RECURSIVE BitAnd16(_, _, _)
BitAnd16(a, b, n) ==
  IF n = 0 THEN 0
  ELSE (IF a % 2 = 1 /\ b % 2 = 1 THEN 1 ELSE 0)
       + 2 * BitAnd16(a \div 2, b \div 2, n - 1)

RECURSIVE BitOr16(_, _, _)
BitOr16(a, b, n) ==
  IF n = 0 THEN 0
  ELSE (IF a % 2 = 1 \/ b % 2 = 1 THEN 1 ELSE 0)
       + 2 * BitOr16(a \div 2, b \div 2, n - 1)

U32(h, l) == [hi |-> h, lo |-> l]
Zero32 == U32(0, 0)
And32(a, b) == U32(BitAnd16(a.hi, b.hi, 16), BitAnd16(a.lo, b.lo, 16))
Or32(a, b) == U32(BitOr16(a.hi, b.hi, 16), BitOr16(a.lo, b.lo, 16))
Not32(a) == U32(W - 1 - a.hi, W - 1 - a.lo)
\* wrapping a + b and a - b on u32
Add32(a, b) ==
  U32((a.hi + b.hi + ((a.lo + b.lo) \div W)) % W, (a.lo + b.lo) % W)
Sub32(a, b) ==
  U32((a.hi + W - b.hi - (IF a.lo < b.lo THEN 1 ELSE 0)) % W,
      (a.lo + W - b.lo) % W)
\* the u32 holding the natural number n < 2^31
FromNat(n) == U32(n \div W, n % W)

\* 0x80000000, 0x40000000, 0xC0000000, 0x30000000
EverFilledBit == U32(2^15, 0)
CurrentlyFilledBit == U32(2^14, 0)
BothFilledBits == U32(2^15 + 2^14, 0)
StrongRefsClearedBits == U32(2^13 + 2^12, 0)

(* ------------------------------ payload -------------------------------- *)

\* The payload slot `data: T`: uninitialized, holding a value, or moved out.
Uninit == [kind |-> "uninit", val |-> 0]
Valid(v) == [kind |-> "valid", val |-> v]
MovedOut == [kind |-> "moved", val |-> 0]

None == <<>>
Some(x) == <<x>>

(* ------------------------------ IVarCell ------------------------------- *)
\* A cell c is a record [data, meta, alloc]: the two fields of the struct,
\* and the state of its heap block ("none": never allocated, "live",
\* "freed").

IVarCell_new == [data |-> Uninit, meta |-> U32(0, 1), alloc |-> "live"]

was_ever_filled(c) == And32(c.meta, EverFilledBit) # Zero32

is_currently_filled(c) == And32(c.meta, CurrentlyFilledBit) # Zero32

\* mark_taken that forgets to clear the bit
mark_taken_keeps_bit(c) == c

\* mark_taken that clears both flag bits
mark_taken_clears_both(c) == [c EXCEPT !.meta = And32(@, Not32(BothFilledBits))]

mark_taken(c) == [c EXCEPT !.meta = And32(@, Not32(CurrentlyFilledBit))]

\* set_filled that sets the "ever filled" bit only
set_filled_ever_only(c) == [c EXCEPT !.meta = Or32(@, EverFilledBit)]

\* set_filled that sets the "currently filled" bit only
set_filled_current_only(c) == [c EXCEPT !.meta = Or32(@, CurrentlyFilledBit)]

\* set_filled that assigns the two bits instead of or-ing them in
set_filled_assigns(c) == [c EXCEPT !.meta = BothFilledBits]

set_filled(c) == [c EXCEPT !.meta = Or32(@, BothFilledBits)]

strong_refs(c) == And32(c.meta, Not32(StrongRefsClearedBits))

\* The count the layout comment of `meta` describes: the number held in
\* bits 0-29 of the word m, computed from the bits themselves.
RefCountField(m) == (m.hi % 2^14) * W + m.lo

\* The two flag bits (31 and 30) of the word m, as a number 0..3.
FlagBits(m) == m.hi \div 2^14

\* inc_ref that adds two
inc_ref_twice(c) == [c EXCEPT !.meta = Add32(@, U32(0, 2))]

inc_ref(c) == [c EXCEPT !.meta = Add32(@, U32(0, 1))]

\* [cell: the cell after the decrement, zero: the returned bool]
dec_ref(c) ==
  LET d == [c EXCEPT !.meta = Sub32(@, U32(0, 1))]
  IN  [cell |-> d, zero |-> (strong_refs(d) = Zero32)]

\* ptr::read of the payload slot: the bits are copied out and the slot is
\* logically moved-from. [cell, ret: what was read, bad: 1 iff the slot did
\* not hold a value]
unsafe_read(c) ==
  [cell |-> [c EXCEPT !.data = IF @.kind = "valid" THEN MovedOut ELSE @],
   ret  |-> c.data,
   bad  |-> IF c.data.kind = "valid" THEN 0 ELSE 1]

\* [cell, ret: Option<T>, bad]
take(c) ==
  IF is_currently_filled(c)
  THEN LET r == unsafe_read(mark_taken(c))
       IN  [cell |-> r.cell, ret |-> Some(r.ret), bad |-> r.bad]
  ELSE [cell |-> c, ret |-> None, bad |-> 0]

\* peek without the is_currently_filled test
peek_unchecked(c) == Some(c.data)

peek(c) == IF is_currently_filled(c) THEN Some(c.data) ELSE None

unsafe_write(c, t) == [c EXCEPT !.data = Valid(t)]

fill(c, t) == set_filled(unsafe_write(c, t))

\* Drop for IVarCell: the payload is read out (and the temporary dropped)
\* when the cell is currently filled. [cell, drops, bad]
IVarCell_drop(c) ==
  IF is_currently_filled(c)
  THEN LET r == unsafe_read(c)
       IN  [cell |-> r.cell, drops |-> 1, bad |-> r.bad]
  ELSE [cell |-> c, drops |-> 0, bad |-> 0]

\* Dropping the Box<IVarCell<T>>: Drop for IVarCell runs, then the struct's
\* fields are dropped in turn (`data: T` is an ordinary field, so its drop
\* glue runs on whatever the slot holds), then the block is freed.
Box_drop(c) ==
  LET r == IVarCell_drop(c)
  IN  [cell  |-> [r.cell EXCEPT !.alloc = "freed"],
       drops |-> r.drops + 1,
       bad   |-> r.bad + (IF r.cell.data.kind = "valid" THEN 0 ELSE 1)]

(* ------------------------------- state --------------------------------- *)

VARIABLES
  cells,         \* the heap: [Addr -> cell]
  rd,            \* rd[a]: number of live IVarRd handles whose cell pointer is a
  held,          \* held[a]: live IVarRd handles kept in a container (bulk clones)
  borrowed,      \* borrowed[a]: handles of rd[a] whose peek() result (&T) is still held
  wr,            \* the IVarWr: [cell: its pointer, st: "live"/"consumed"/"dropped"]
  released,      \* number of times a cell's heap block was freed
  payloadDrops,  \* number of times cell destruction dropped the payload slot
  badPayloadOps, \* reads / drops of a payload slot that held no value
  uaf,           \* TRUE once an operation dereferenced a freed cell
  fills,         \* number of completed fill calls
  fillVal,       \* the value given to the last fill (0 before any)
  taken,         \* the payloads returned as Some(_) by take, in order
  last           \* the last operation and what it returned

\* n more events on the counter c, which saturates at MaxCount
Count(c, n) == IF c + n > MaxCount THEN MaxCount ELSE c + n

vars == <<cells, rd, held, borrowed, wr, released, payloadDrops, badPayloadOps, uaf,
          fills, fillVal, taken, last>>

TotalRd == LET RECURSIVE Sum(_)
               Sum(n) == IF n = 0 THEN 0 ELSE rd[n] + Sum(n - 1)
           IN  Sum(MaxCells)

\* the live handles of either kind
TotalHeld == LET RECURSIVE Sum(_)
                 Sum(n) == IF n = 0 THEN 0 ELSE held[n] + Sum(n - 1)
             IN  Sum(MaxCells)

\* the live handles of either kind
LiveHandles == TotalRd + TotalHeld + (IF wr.st = "live" THEN 1 ELSE 0)

\* the cells some live read handle points to
RdCells == {a \in Addr : rd[a] + held[a] > 0}

\* new(): IVar::new() boxes a fresh cell at some address the allocator
\* picks, make_ref() adds the read side's reference.
IVar_new(a) == [x \in Addr |->
                 IF x = a THEN IVarCell_new
                 ELSE [data |-> Uninit, meta |-> Zero32, alloc |-> "none"]]

IVar_make_ref(h, a) == [h EXCEPT ![a] = inc_ref(@)]

Init ==
  \E a \in Addr :
    /\ cells = IVar_make_ref(IVar_new(a), a)
    /\ rd = [x \in Addr |-> IF x = a THEN 1 ELSE 0]
    /\ held = [x \in Addr |-> 0]
    /\ borrowed = [x \in Addr |-> 0]
    /\ wr = [cell |-> a, st |-> "live"]
    /\ released = 0
    /\ payloadDrops = 0
    /\ badPayloadOps = 0
    /\ uaf = FALSE
    /\ fills = 0
    /\ fillVal = 0
    /\ taken = <<>>
    /\ last = [op |-> "new", ret |-> <<>>]

\* Drop for IVar, for a handle whose cell pointer is p, on the heap h:
\* [cells, released, drops, bad, uaf] are the new heap, and what the drop
\* added to the counters.
IVar_drop(p, h) ==
  IF p = NULL
  THEN [cells |-> h, released |-> 0, drops |-> 0, bad |-> 0, uaf |-> FALSE]
  ELSE LET d == dec_ref(h[p])
       IN  IF d.zero
           THEN LET b == Box_drop(d.cell)
                IN  [cells |-> [h EXCEPT ![p] = b.cell], released |-> 1,
                     drops |-> b.drops, bad |-> b.bad,
                     uaf |-> h[p].alloc # "live"]
           ELSE [cells |-> [h EXCEPT ![p] = d.cell], released |-> 0,
                 drops |-> 0, bad |-> 0, uaf |-> h[p].alloc # "live"]

(* ------------------------------ IVarRd --------------------------------- *)

\* a peek that empties the cell it looks at
IVarRd_peek_marks_taken(a) ==
  /\ a \in RdCells
  /\ last' = [op |-> "peek", ret |-> peek(cells[a])]
  /\ cells' = [cells EXCEPT ![a] = mark_taken(@)]
  /\ UNCHANGED <<borrowed, rd, held, wr, released, payloadDrops, badPayloadOps, uaf,
                 fills, fillVal, taken>>

IVarRd_peek(a) ==
  /\ a \in RdCells
  /\ last' = [op |-> "peek", ret |-> peek(cells[a])]
  /\ uaf' = (uaf \/ cells[a].alloc # "live")
  /\ UNCHANGED <<borrowed, cells, rd, held, wr, released, payloadDrops, badPayloadOps,
                 fills, fillVal, taken>>

IVarRd_take(a) ==
  /\ a \in RdCells
  /\ rd[a] + held[a] > borrowed[a]
  /\ LET r == take(cells[a])
     IN  /\ cells' = [cells EXCEPT ![a] = r.cell]
         /\ last' = [op |-> "take", ret |-> r.ret]
         /\ taken' = IF r.ret = None \/ Len(taken) >= MaxCount THEN taken
                   ELSE Append(taken, r.ret[1])
         /\ badPayloadOps' = Count(badPayloadOps, r.bad)
  /\ uaf' = (uaf \/ cells[a].alloc # "live")
  /\ UNCHANGED <<borrowed, rd, held, wr, released, payloadDrops, fills, fillVal>>

IVarRd_is_filled(a) ==
  /\ a \in RdCells
  /\ last' = [op |-> "is_filled", ret |-> <<is_currently_filled(cells[a])>>]
  /\ uaf' = (uaf \/ cells[a].alloc # "live")
  /\ UNCHANGED <<borrowed, cells, rd, held, wr, released, payloadDrops, badPayloadOps,
                 fills, fillVal, taken>>

IVarRd_was_ever_filled(a) ==
  /\ a \in RdCells
  /\ last' = [op |-> "was_ever_filled", ret |-> <<was_ever_filled(cells[a])>>]
  /\ uaf' = (uaf \/ cells[a].alloc # "live")
  /\ UNCHANGED <<borrowed, cells, rd, held, wr, released, payloadDrops, badPayloadOps,
                 fills, fillVal, taken>>

\* a clone that copies the cell into a fresh block instead of sharing it
IVarRd_clone_copies(a) ==
  /\ rd[a] > 0
  /\ TotalRd < MaxRd
  /\ \E b \in Addr :
       /\ cells[b].alloc = "none"
       /\ cells' = [cells EXCEPT ![b] = cells[a]]
       /\ rd' = [rd EXCEPT ![b] = 1]
  /\ last' = [op |-> "clone", ret |-> <<>>]
  /\ UNCHANGED <<borrowed, held, wr, released, payloadDrops, badPayloadOps, uaf, fills,
                 fillVal, taken>>

\* Clone for IVarRd: one more reference, and a handle with the same pointer.
IVarRd_clone(a) ==
  /\ rd[a] > 0
  /\ TotalRd < MaxRd
  /\ cells' = [cells EXCEPT ![a] = inc_ref(@)]
  /\ rd' = [rd EXCEPT ![a] = @ + 1]
  /\ last' = [op |-> "clone", ret |-> <<>>]
  /\ uaf' = (uaf \/ cells[a].alloc # "live")
  /\ UNCHANGED <<borrowed, held, wr, released, payloadDrops, badPayloadOps, fills, fillVal,
                 taken>>

\* A read handle goes out of scope: Drop for IVar on its inner handle.
IVarRd_drop(a) ==
  /\ rd[a] > borrowed[a]
  /\ LET r == IVar_drop(a, cells)
     IN  /\ cells' = r.cells
         /\ released' = Count(released, r.released)
         /\ payloadDrops' = Count(payloadDrops, r.drops)
         /\ badPayloadOps' = Count(badPayloadOps, r.bad)
         /\ uaf' = (uaf \/ r.uaf)
  /\ rd' = [rd EXCEPT ![a] = @ - 1]
  /\ last' = [op |-> "drop_rd", ret |-> <<>>]
  /\ UNCHANGED <<borrowed, held, wr, fills, fillVal, taken>>

(* ------------------------------ IVarWr --------------------------------- *)

\* a fill that borrows the write handle instead of consuming it
IVarWr_fill_borrows(t) ==
  /\ wr.st = "live"
  /\ cells' = [cells EXCEPT ![wr.cell] = fill(@, t)]
  /\ fills' = Count(fills, 1)
  /\ fillVal' = t
  /\ last' = [op |-> "fill", ret |-> <<>>]
  /\ UNCHANGED <<borrowed, rd, held, wr, released, payloadDrops, badPayloadOps, uaf,
                 taken>>

\* fill(self, t): the cell is filled, then `self` (moved into the call) goes
\* out of scope and its inner handle is dropped.
IVarWr_fill(t) ==
  /\ wr.st = "live"
  /\ LET a == wr.cell
         r == IVar_drop(a, [cells EXCEPT ![a] = fill(@, t)])
     IN  /\ cells' = r.cells
         /\ released' = Count(released, r.released)
         /\ payloadDrops' = Count(payloadDrops, r.drops)
         /\ badPayloadOps' = Count(badPayloadOps, r.bad)
         /\ uaf' = (uaf \/ cells[a].alloc # "live")
  /\ wr' = [cell |-> NULL, st |-> "consumed"]
  /\ fills' = Count(fills, 1)
  /\ fillVal' = t
  /\ last' = [op |-> "fill", ret |-> <<>>]
  /\ UNCHANGED <<borrowed, rd, held, taken>>

\* The write handle goes out of scope unused.
IVarWr_drop ==
  /\ wr.st = "live"
  /\ LET r == IVar_drop(wr.cell, cells)
     IN  /\ cells' = r.cells
         /\ released' = Count(released, r.released)
         /\ payloadDrops' = Count(payloadDrops, r.drops)
         /\ badPayloadOps' = Count(badPayloadOps, r.bad)
         /\ uaf' = (uaf \/ r.uaf)
  /\ wr' = [cell |-> NULL, st |-> "dropped"]
  /\ last' = [op |-> "drop_wr", ret |-> <<>>]
  /\ UNCHANGED <<borrowed, rd, held, fills, fillVal, taken>>

Next ==
  \/ \E a \in Addr : IVarRd_peek(a)
  \/ \E a \in Addr : IVarRd_take(a)
  \/ \E a \in Addr : IVarRd_is_filled(a)
  \/ \E a \in Addr : IVarRd_was_ever_filled(a)
  \/ \E a \in Addr : IVarRd_clone(a)
  \/ \E a \in Addr : IVarRd_drop(a)
  \/ \E t \in Val : IVarWr_fill(t)
  \/ IVarWr_drop

Spec == Init /\ [][Next]_vars

(* ----------------------- very many read handles ------------------------ *)

\* A loop clones one read handle BulkBase + BulkExtra times into a
\* container that keeps the clones alive: that many inc_ref calls.
CloneMany(a) ==
  /\ rd[a] > 0
  /\ TotalHeld = 0
  /\ LET n == BulkBase + BulkExtra
     IN  /\ cells' = [cells EXCEPT ![a].meta = Add32(@, FromNat(n))]
         /\ held' = [held EXCEPT ![a] = n]
  /\ last' = [op |-> "clone", ret |-> <<>>]
  /\ uaf' = (uaf \/ cells[a].alloc # "live")
  /\ UNCHANGED <<borrowed, rd, wr, released, payloadDrops, badPayloadOps, fills,
                 fillVal, taken>>

\* What a freed block may come to hold while dangling handles remain: the
\* allocator reuses it, so its words are no longer the cell's.
GarbageMeta == {U32(0, 1), U32(2^14, 1), U32(2^15 + 2^14, 2)}
Garbage == [kind |-> "garbage", val |-> 0]

Scribble(a) ==
  /\ cells[a].alloc = "freed"
  /\ a \in RdCells \/ (wr.st = "live" /\ wr.cell = a)
  /\ \E g \in GarbageMeta :
       cells' = [cells EXCEPT ![a].meta = g, ![a].data = Garbage]
  /\ UNCHANGED <<borrowed, rd, held, wr, released, payloadDrops, badPayloadOps, uaf,
                 fills, fillVal, taken, last>>

NextBulk ==
  \/ Next
  \/ \E a \in Addr : CloneMany(a)
  \/ \E a \in Addr : Scribble(a)

SpecBulk == Init /\ [][NextBulk]_vars

(* ------------------------ borrows from peek() -------------------------- *)

\* peek(&self) -> Option<&T> whose Some(&T) the caller keeps: the reference
\* borrows the handle it was obtained through (no take, no drop of that
\* handle while it lives), and points into the cell's payload slot.
IVarRd_peek_keep(a) ==
  /\ rd[a] > borrowed[a]
  /\ peek(cells[a]) # None
  /\ borrowed' = [borrowed EXCEPT ![a] = @ + 1]
  /\ last' = [op |-> "peek", ret |-> peek(cells[a])]
  /\ uaf' = (uaf \/ cells[a].alloc # "live")
  /\ UNCHANGED <<cells, rd, held, wr, released, payloadDrops, badPayloadOps,
                 fills, fillVal, taken>>

\* a kept reference goes out of scope
EndBorrow(a) ==
  /\ borrowed[a] > 0
  /\ borrowed' = [borrowed EXCEPT ![a] = @ - 1]
  /\ UNCHANGED <<cells, rd, held, wr, released, payloadDrops, badPayloadOps,
                 uaf, fills, fillVal, taken, last>>

NextBorrow ==
  \/ Next
  \/ \E a \in Addr : IVarRd_peek_keep(a)
  \/ \E a \in Addr : EndBorrow(a)

SpecBorrow == Init /\ [][NextBorrow]_vars

(* ------------------------------ claims --------------------------------- *)

\* every handle (all read handles and the write handle) has been destroyed
AllDestroyed == LiveHandles = 0

\* C1: once every handle has been destroyed exactly once (the write handle
\* dropped or consumed by fill), the cell's storage has been released
\* exactly once, whether or not fill or take happened.
C1_ReleasedExactlyOnce == AllDestroyed => released = 1

\* C2: if the cell was filled and the value never taken, then once the last
\* handle is dropped the payload has been disposed of exactly once (and the
\* storage released).
C2_UntakenPayloadDisposed ==
  (AllDestroyed /\ fills = 1 /\ taken = <<>>) =>
    (payloadDrops = 1 /\ badPayloadOps = 0 /\ released = 1)

\* C3: the storage is never released while a handle referencing it is live
\* and never released more than once, so no operation through a live handle
\* acts on a released cell.
C3_NoReleaseWhileLive ==
  /\ released <= 1
  /\ (LiveHandles > 0 => released = 0)
  /\ ~uaf

(* The claims below about what the read handles observe are checked under  *)
(* Spec, where every handle acts on a cell that has not been released.     *)

\* C4: after fill(v) the first take returns Some(v); every later take or
\* peek on any read handle returns None, is_filled() is false and
\* was_ever_filled() stays true; at most one take ever returns a value.
C4_TakeOnce ==
  /\ Len(taken) <= 1
  /\ (fills >= 1 /\ taken = <<>>) =>
       \A a \in RdCells : take(cells[a]).ret = Some(Valid(fillVal))
  /\ taken # <<>> =>
       /\ fills >= 1
       /\ taken[1] = Valid(fillVal)
       /\ \A a \in RdCells :
            /\ take(cells[a]).ret = None
            /\ peek(cells[a]) = None
            /\ ~is_currently_filled(cells[a])
            /\ was_ever_filled(cells[a])
       /\ last.op = "peek" => last.ret = None
       /\ last.op = "take" => last.ret \in {None, Some(Valid(fillVal))}
       /\ last.op = "is_filled" => last.ret = <<FALSE>>
       /\ last.op = "was_ever_filled" => last.ret = <<TRUE>>

\* a take that returned None after the one that returned the value, with a
\* clone alive
C4_Witness ==
  /\ taken # <<>>
  /\ last.op = "take" /\ last.ret = None
  /\ TotalRd >= 2

\* C5: while fill has not been called, whatever clones, drops, peeks and
\* takes happened and whether or not the write handle was dropped, peek and
\* take return None and is_filled and was_ever_filled return false.
C5_EmptyBeforeFill ==
  fills = 0 =>
    /\ \A a \in RdCells :
         /\ peek(cells[a]) = None
         /\ take(cells[a]).ret = None
         /\ ~is_currently_filled(cells[a])
         /\ ~was_ever_filled(cells[a])
    /\ last.op \in {"peek", "take"} => last.ret = None
    /\ last.op \in {"is_filled", "was_ever_filled"} => last.ret = <<FALSE>>
    /\ taken = <<>>

\* an unfilled cell whose write handle was dropped unused, probed through
\* one of several read handles
C5_Witness ==
  /\ fills = 0 /\ wr.st = "dropped"
  /\ TotalRd >= 2
  /\ last.op = "take"

\* C6: after fill(v) and before any take, every live read handle sees
\* peek() = Some(v), is_filled() and was_ever_filled().
C6_FillVisible ==
  (fills >= 1 /\ taken = <<>>) =>
    /\ \A a \in RdCells :
         /\ peek(cells[a]) = Some(Valid(fillVal))
         /\ is_currently_filled(cells[a])
         /\ was_ever_filled(cells[a])
    /\ last.op = "peek" => last.ret = Some(Valid(fillVal))
    /\ last.op \in {"is_filled", "was_ever_filled"} => last.ret = <<TRUE>>

\* a peek after the fill, with a clone alive
C6_Witness ==
  /\ fills = 1 /\ taken = <<>>
  /\ TotalRd >= 2
  /\ last.op = "peek" /\ last.ret = Some(Valid(MaxVal))

\* C7: all live read handles give the same peek / is_filled /
\* was_ever_filled results, and right after a take that returned the value
\* every read handle sees the cell empty.
C7_ClonesShareCell ==
  /\ \A a, b \in RdCells :
       /\ peek(cells[a]) = peek(cells[b])
       /\ is_currently_filled(cells[a]) = is_currently_filled(cells[b])
       /\ was_ever_filled(cells[a]) = was_ever_filled(cells[b])
  /\ (last.op = "take" /\ last.ret # None) =>
       \A b \in RdCells : peek(cells[b]) = None /\ ~is_currently_filled(cells[b])

\* the value was just taken while three read handles are alive
C7_Witness ==
  /\ TotalRd >= 3
  /\ last.op = "take" /\ last.ret # None

\* C8: the cell is filled at most once: fill consumes the write handle, and
\* once the value was taken the cell is not filled again.
C8_FilledAtMostOnce ==
  /\ fills <= 1
  /\ fills = 1 => (wr.st = "consumed" /\ wr.cell = NULL)
  /\ wr.st = "live" => fills = 0
  /\ taken # <<>> =>
       (fills = 1 /\ \A a \in Addr : ~is_currently_filled(cells[a]))

\* filled, taken, and then found not filled
C8_Witness ==
  /\ fills = 1 /\ taken # <<>>
  /\ last.op = "is_filled" /\ last.ret = <<FALSE>>

\* C9: once was_ever_filled() is true on a read handle it is true on every
\* read handle in every later state.
C9_WasEverFilledMonotonic ==
  [][(\E a \in RdCells : was_ever_filled(cells[a])) =>
       (\A b \in RdCells' : was_ever_filled(cells'[b]))]_vars

\* still true after the take and after the consumed write handle and a
\* read handle are gone
C9_Witness ==
  /\ taken # <<>> /\ wr.st = "consumed"
  /\ last.op = "drop_rd"
  /\ \E a \in RdCells : was_ever_filled(cells[a])

\* C10: if the cell is never filled, then once all handles are dropped the
\* storage has been released exactly once and nothing was read from or
\* dropped in the uninitialized payload slot.
C10_UnfilledCleanRelease ==
  (AllDestroyed /\ fills = 0) =>
    (released = 1 /\ payloadDrops = 0 /\ badPayloadOps = 0)

\* the cells that were allocated and not freed
LiveCells == {a \in Addr : cells[a].alloc = "live"}

\* C11: dec_ref returns true exactly when bits 0-29 of the word are 0 after
\* the decrement, whatever the two flag bits are; so it returns true when
\* the last handle of a filled (or filled and taken) cell is dropped.
C11_DecRefZeroIffCountZero ==
  \A a \in LiveCells :
    LET d == dec_ref(cells[a])
    IN  d.zero <=> (RefCountField(d.cell.meta) = 0)

\* C12: while the cell is not released, bits 0-29 of its word equal the
\* number of live handles referencing it (read handles, plus the write
\* handle while it is neither dropped nor consumed): 2 after new(), one
\* more per clone, one less per handle drop and per fill.
C12_CountEqualsLiveHandles ==
  /\ \A a \in LiveCells : RefCountField(cells[a].meta) = LiveHandles
  /\ last.op = "new" => \A a \in LiveCells : RefCountField(cells[a].meta) = 2

\* a filled cell with 2^28 - 1 clones in a container, after a handle drop
C12_Witness ==
  /\ LiveCells # {}
  /\ fills = 1 /\ last.op = "drop_rd"
  /\ TotalHeld > 0 /\ TotalRd = 2

\* C13: strong_refs returns exactly the value of bits 0-29 of the word: the
\* flag bits 31 and 30 are left out and each of the 30 low bits is kept.
C13_StrongRefsIsLow30Bits ==
  \A a \in LiveCells :
    strong_refs(cells[a]) = FromNat(RefCountField(cells[a].meta))

\* C14: at every operation boundary the payload slot holds a value exactly
\* when currently_filled is set, and the payload is read, moved out or
\* dropped only by an operation that found currently_filled set, never twice.
C14_PayloadValidIffFilled ==
  /\ \A a \in Addr :
       cells[a].alloc # "none" =>
         (cells[a].data.kind = "valid" <=> is_currently_filled(cells[a]))
  /\ badPayloadOps = 0

\* C15: currently_filled implies ever_filled: a cell is Unfilled (neither
\* bit), Filled (both) or Taken (ever_filled only), and is_filled() implies
\* was_ever_filled() on every read handle.
C15_CurrentlyImpliesEver ==
  /\ \A a \in Addr : is_currently_filled(cells[a]) => was_ever_filled(cells[a])
  /\ \A a \in {x \in Addr : cells[x].alloc # "none"} :
       /\ ~was_ever_filled(cells[a]) => fills = 0
       /\ (was_ever_filled(cells[a]) /\ is_currently_filled(cells[a])) =>
            (fills = 1 /\ taken = <<>>)
       /\ (was_ever_filled(cells[a]) /\ ~is_currently_filled(cells[a])) =>
            (fills = 1 /\ taken # <<>>)
  /\ (last.op = "is_filled" /\ last.ret = <<TRUE>>) =>
       \A a \in RdCells : was_ever_filled(cells[a])

\* is_filled() just returned true on one of two read handles
C15_Witness ==
  /\ last.op = "is_filled" /\ last.ret = <<TRUE>>
  /\ TotalRd = 2

\* C16: a take that finds the cell filled clears only the currently_filled
\* bit (ever_filled stays set, the count is unchanged); a take that finds it
\* not filled returns None and changes neither the word nor the payload;
\* fill leaves the count bits unchanged; inc_ref and dec_ref, with the count
\* staying within 1..2^30-1, leave both flag bits unchanged.
C16_FrameEffects ==
  \A a \in {x \in Addr : cells[x].alloc # "none"} :
    LET c == cells[a]
        n == RefCountField(c.meta)
        r == take(c)
    IN  /\ is_currently_filled(c) =>
             /\ r.ret # None
             /\ was_ever_filled(r.cell) = was_ever_filled(c)
             /\ ~is_currently_filled(r.cell)
             /\ RefCountField(r.cell.meta) = n
        /\ ~is_currently_filled(c) => (r.ret = None /\ r.cell = c)
        /\ \A t \in Val : RefCountField(fill(c, t).meta) = n
        /\ (1 <= n /\ n + 1 <= 2^30 - 1) =>
             /\ FlagBits(inc_ref(c).meta) = FlagBits(c.meta)
             /\ RefCountField(inc_ref(c).meta) = n + 1
        /\ (1 <= n - 1 /\ n <= 2^30 - 1) =>
             /\ FlagBits(dec_ref(c).cell.meta) = FlagBits(c.meta)
             /\ RefCountField(dec_ref(c).cell.meta) = n - 1

\* the value was just taken from a cell that 2^28 - 1 container clones
\* reference
C16_Witness ==
  /\ last.op = "take" /\ last.ret # None
  /\ TotalHeld > 0 /\ ~uaf

\* C17: peek, is_filled and was_ever_filled change nothing of the cell (flag
\* bits, count, payload) nor of the handles, and a probe repeated right
\* after itself returns the same result.
C17_ProbesArePure ==
  [][last'.op \in {"peek", "is_filled", "was_ever_filled"} =>
       /\ cells' = cells
       /\ UNCHANGED <<rd, held, wr, released, payloadDrops, badPayloadOps>>
       /\ last.op = last'.op => last'.ret = last.ret]_vars

\* a peek that returned the value, the cell still filled afterwards
C17_Witness ==
  /\ last.op = "peek" /\ last.ret # None
  /\ \A a \in RdCells : is_currently_filled(cells[a])
  /\ TotalRd = 1

\* C18: while a reference returned by peek() is held, the payload it points
\* to is not moved out: no take through another clone succeeds, so the
\* reference never refers to a moved-out payload.
C18_BorrowStaysValid ==
  \A a \in Addr :
    borrowed[a] > 0 =>
      (cells[a].data.kind = "valid" /\ is_currently_filled(cells[a]))

=============================================================================
